---- MODULE Spec2Model ----
(***************************************************************************)
(* Settlement orchestration of the SuiVerify backend microservice:         *)
(* settleNftPayment (controllers/settlement.controller.ts) over the        *)
(* nft_settlements table (services/database.service.ts) and the Sui        *)
(* ledger reached through suiClient.signAndExecuteTransaction.             *)
(***************************************************************************)
EXTENDS Integers, Sequences, FiniteSets, TLC

(***************************************************************************)
(* Bounds of the model.                                                    *)
(***************************************************************************)
\* number of settle requests (handler invocations) per behaviour
MaxReqs == 2
\* number of direct storage calls in the storage-layer specification
MaxRows == 3

(***************************************************************************)
(* Program constants.                                                      *)
(***************************************************************************)
\* /^0x[a-fA-F0-9]{64}$/
SuiIdHexLen == 64
\* /^[1-9A-HJ-NP-Za-km-z]{43,44}$/
TxDigestMinLen == 43
TxDigestMaxLen == 44
\* protocolConfig.constants.settlementFee
SettlementFee == 3000000
\* protocolConfig.protocol.uid
ProtocolUid == 1000
\* new Pool({connectionString, ssl}): the pool's default size
PoolMax == 10
\* protocolConfig.protocol.name
ProtocolName == "test"
\* protocolConfig.protocol.address
ProtocolAddress == "protocolConfig.protocol.address"

\* config/sui.config.ts: CONTRACT_CONFIG as built from protocol-config.json
CONTRACT_CONFIG ==
  [packageId       |-> "protocolConfig.contracts.packageId",
   paymentRegistry |-> "protocolConfig.contracts.paymentRegistry",
   paymentCap      |-> "protocolConfig.contracts.paymentCap",
   clock           |-> "protocolConfig.contracts.clock",
   protocol        |-> [uid     |-> ProtocolUid,
                        address |-> ProtocolAddress,
                        vault   |-> "protocolConfig.protocol.vault"],
   constants       |-> [settlementFee |-> SettlementFee]]

\* config/sui.config.ts after the module is loaded: the keypair parsed from
\* ADMIN_PRIVATE_KEY, its address and the contract configuration
SuiConfig ==
  [adminKeypair    |-> "getAdminKeypair()",
   adminAddress    |-> "adminKeypair.getPublicKey().toSuiAddress()",
   CONTRACT_CONFIG |-> CONTRACT_CONFIG]

(***************************************************************************)
(* JSON values of the request fields.  A field carries the short name of   *)
(* a concrete value: a string, or (USER_ARR) an array holding one string.  *)
(* StrOf gives the characters of ToString(value), a sequence of            *)
(* one-character strings: what !value, RegExp.test(value) and the          *)
(* database driver read.                                                   *)
(***************************************************************************)
Rep(c, n) == [i \in 1..n |-> c]

HexChars ==
  {"0","1","2","3","4","5","6","7","8","9",
   "a","b","c","d","e","f","A","B","C","D","E","F"}

Base58Chars ==
  {"1","2","3","4","5","6","7","8","9",
   "A","B","C","D","E","F","G","H","J","K","L","M","N","P","Q","R","S","T",
   "U","V","W","X","Y","Z",
   "a","b","c","d","e","f","g","h","i","j","k","m","n","o","p","q","r","s",
   "t","u","v","w","x","y","z"}

\* the concrete strings the requests of the model carry
StrOf(t) ==
  CASE t = ""           -> << >>
    [] t = "ID_A"       -> <<"0","x">> \o Rep("a", 64)
    [] t = "ID_B"       -> <<"0","x">> \o Rep("B", 32) \o Rep("7", 32)
    [] t = "ID_SHORT"   -> <<"0","x">> \o Rep("a", 63)
    [] t = "ID_LONG"    -> <<"0","x">> \o Rep("a", 65)
    [] t = "ID_NOHEX"   -> <<"0","x">> \o Rep("a", 63) \o <<"g">>
    [] t = "ID_NOPFX"   -> Rep("a", 66)
    [] t = "USER_1"     -> <<"0","x">> \o Rep("c", 64)
    [] t = "USER_BAD"   -> <<"0","X">> \o Rep("c", 64)
    [] t = "USER_ARR"   -> <<"0","x">> \o Rep("c", 64)
    [] t = "DIG_43"     -> Rep("B", 43)
    [] t = "DIG_44"     -> Rep("z", 44)
    [] t = "DIG_42"     -> Rep("B", 42)
    [] t = "DIG_45"     -> Rep("B", 45)
    [] t = "DIG_ZERO"   -> Rep("B", 42) \o <<"0">>
    [] t = "DIG_ELL"    -> <<"l">> \o Rep("B", 43)
    [] t = "NAME_1"     -> <<"A","g","e">>

\* fault variant: the pattern lacks the closing $
SuiIdRegexTest_Unanchored(s) ==
  /\ Len(s) >= 2 + SuiIdHexLen
  /\ s[1] = "0"
  /\ s[2] = "x"
  /\ \A i \in 3..(2 + SuiIdHexLen) : s[i] \in HexChars

\* /^0x[a-fA-F0-9]{64}$/.test(s) for a string s
SuiIdRegexTest(s) ==
  /\ Len(s) = 2 + SuiIdHexLen
  /\ s[1] = "0"
  /\ s[2] = "x"
  /\ \A i \in 3..Len(s) : s[i] \in HexChars

\* fault variant: the character class is [0-9A-Za-z]
TxDigestRegexTest_Alphanumeric(s) ==
  /\ Len(s) >= TxDigestMinLen
  /\ Len(s) <= TxDigestMaxLen
  /\ \A i \in 1..Len(s) : s[i] \in Base58Chars \cup {"0", "O", "I", "l"}

\* /^[1-9A-HJ-NP-Za-km-z]{43,44}$/.test(s) for a string s
TxDigestRegexTest(s) ==
  /\ Len(s) >= TxDigestMinLen
  /\ Len(s) <= TxDigestMaxLen
  /\ \A i \in 1..Len(s) : s[i] \in Base58Chars

\* settlement.controller.ts:31-33; test() reads ToString of its argument
isValidSuiId(id) == SuiIdRegexTest(StrOf(id))

\* settlement.controller.ts:36-38
isValidTxDigest(digest) == TxDigestRegexTest(StrOf(digest))

\* the strings the validators are applied to on their own: a prefix and a
\* run of one character, with at most one character replaced
Splice(s, k, x) == [i \in 1..Len(s) |-> IF i = k THEN x ELSE s[i]]

IdInputs ==
  { Splice(p \o Rep(c, n), k, x) :
      p \in {<<"0", "x">>, <<"0", "X">>, << >>, <<"x">>, <<"1", "x">>},
      c \in {"a", "F", "0"},
      n \in (SuiIdHexLen - 1)..(SuiIdHexLen + 1),
      k \in {0, 1, 2, 3, SuiIdHexLen + 1, SuiIdHexLen + 2, SuiIdHexLen + 3},
      x \in {"g", "G", "x", " ", "\n", "9", "e"} }

DigestInputs ==
  { Splice(Rep(c, n), k, x) :
      c \in {"B", "z", "1"},
      n \in (TxDigestMinLen - 1)..(TxDigestMaxLen + 1),
      k \in {0, 1, TxDigestMinLen, TxDigestMaxLen, TxDigestMaxLen + 1},
      x \in {"0", "O", "I", "l", "+", "/", " ", "\n", "9", "k"} }

\* a validator with its argument, before and after the call
Check(fn, input, applied, out) ==
  [fn |-> fn, input |-> input, applied |-> applied, out |-> out]

NoCheck == Check("", << >>, FALSE, FALSE)

\* the values that are arrays: ["0x" + "c" * 64]
IsArray(t) == t \in {"USER_ARR"}

\* JavaScript !x: undefined and "" are falsy, an array is not
Falsy(x) == ~IsArray(x) /\ StrOf(x) = << >>

\* length of the text the database driver sends for a parameter: a string
\* as it is, an array as the literal {"element"}
ParamLen(t) == IF IsArray(t) THEN Len(StrOf(t)) + 4 ELSE Len(StrOf(t))

(***************************************************************************)
(* Request bodies (req.body as SettlementRequest).  didNftName "" stands   *)
(* for an absent optional field.  protocolName and protocolUid are the     *)
(* further fields the frontend sends; the request for ID_B carries a       *)
(* protocol other than the configured one.                                 *)
(***************************************************************************)
BodyOfProtocol(d, i, n, u, pn, pu) ==
  [enclaveTxDigest |-> d, didVerifiedId |-> i, didNftName |-> n, userAddress |-> u,
   protocolName |-> pn, protocolUid |-> pu]

Body(d, i, n, u) == BodyOfProtocol(d, i, n, u, ProtocolName, ProtocolUid)

ValidBodies ==
  { Body("DIG_43", "ID_A", "", "USER_1"),
    BodyOfProtocol("DIG_44", "ID_B", "NAME_1", "USER_1", "other", 9999),
    Body("DIG_43", "ID_A", "", "USER_ARR") }

InvalidBodies ==
  { Body("", "ID_A", "", "USER_1"), Body("DIG_42", "ID_A", "", "USER_1"),
    Body("DIG_43", "", "", "USER_1"), Body("DIG_43", "ID_LONG", "", "USER_1"),
    Body("DIG_43", "ID_A", "", ""), Body("DIG_43", "ID_A", "", "USER_BAD"),
    Body("", "", "", ""), Body("DIG_42", "ID_SHORT", "NAME_1", "USER_BAD") }

Bodies == ValidBodies \cup InvalidBodies

NoBody == Body("", "", "", "")

Reqs == 1..MaxReqs

(***************************************************************************)
(* State.                                                                  *)
(***************************************************************************)
VARIABLES
  pc,               \* per request: the await the handler is suspended at
  body,             \* per request: req.body
  result,           \* per request: the handler's local `result`
  txBase,           \* per request: ledger version its transaction was built on
  executed,         \* per request: digest of the transaction the ledger ran or
                    \* replayed for its submission (0: none)
  res,              \* per request: the response sent (status 0: none yet)
  calls,            \* per request: history of collaborator calls and returns
  doneBefore,       \* per request: the requests answered before it arrived
  nft_settlements,  \* the table, oldest row first
  nextId,           \* the table's SERIAL sequence
  chainTxs,         \* transactions executed by the ledger; digest = position
  statusRes,        \* the response of the latest GET /status/:nftId
  httpRes,          \* the latest other request to the application and its response
  dbOp,             \* the storage operation in progress and how far it got
  checkedOut,       \* pool clients checked out and not released
  checked,          \* a validator, the string it is applied to and its verdict
  proc,             \* the process: how far startServer got, and its exit code
  config            \* the exports of config/sui.config.ts

vars ==
  <<pc, body, result, txBase, executed, res, calls, doneBefore, nft_settlements, nextId,
    chainTxs, statusRes, httpRes, dbOp, checkedOut, checked, proc, config>>

\* the state outside the settle and status handlers
otherVars == <<httpRes, dbOp, checkedOut, checked, proc, config>>

NoResult == [digest |-> 0, status |-> "", error |-> ""]

NoResponse ==
  [status |-> 0, success |-> FALSE, error |-> << >>, data |-> << >>, digest |-> 0]

Respond(code, ok, err, data, digest) ==
  [status |-> code, success |-> ok, error |-> err, data |-> data, digest |-> digest]

(***************************************************************************)
(* Storage layer: services/database.service.ts (current schema).           *)
(***************************************************************************)
\* fault variant: the table is created without the UNIQUE constraint
UniqueViolation_None(table, settlement) == FALSE

\* the constraints of CREATE TABLE nft_settlements: payment_tx_digest UNIQUE;
\* did_verified_id and user_address carry plain (non-unique) indexes
UniqueViolation(table, settlement) ==
  \E i \in 1..Len(table) : table[i].payment_tx_digest = settlement.payment_tx_digest

\* the column widths of CREATE TABLE nft_settlements
EnclaveTxDigestWidth == 64
DidVerifiedIdWidth == 66
DidNftNameWidth == 255
UserAddressWidth == 66

\* a parameter does not fit its VARCHAR column
ValueTooLong(settlement) ==
  \/ ParamLen(settlement.enclave_tx_digest) > EnclaveTxDigestWidth
  \/ ParamLen(settlement.did_verified_id) > DidVerifiedIdWidth
  \/ ParamLen(settlement.did_nft_name) > DidNftNameWidth
  \/ ParamLen(settlement.user_address) > UserAddressWidth

\* the error the INSERT of storeSettlement raises, "" when it commits
InsertError(table, settlement) ==
  IF ValueTooLong(settlement) THEN "value too long for type character varying"
  ELSE IF UniqueViolation(table, settlement)
    THEN "duplicate key value violates unique constraint"
  ELSE ""

\* the row INSERT ... RETURNING * yields
InsertedRow(settlement, id) ==
  [id                |-> id,
   enclave_tx_digest |-> settlement.enclave_tx_digest,
   did_verified_id   |-> settlement.did_verified_id,
   did_nft_name      |-> settlement.did_nft_name,
   protocol_uid      |-> settlement.protocol_uid,
   protocol_name     |-> settlement.protocol_name,
   protocol_address  |-> settlement.protocol_address,
   user_address      |-> settlement.user_address,
   payment_tx_digest |-> settlement.payment_tx_digest,
   settlement_amount |-> settlement.settlement_amount,
   status            |-> IF settlement.status = "" THEN "success" ELSE settlement.status]

\* fault variant: the INSERT is not executed
storeSettlement_NoInsert(table, settlement, id) == table

\* storeSettlement: the table after the INSERT
storeSettlement(table, settlement, id) ==
  IF InsertError(table, settlement) # ""
    THEN table
    ELSE Append(table, InsertedRow(settlement, id))

\* rows of a SELECT ... WHERE did_verified_id = $1, oldest first
RowsOf(table, didVerifiedId) ==
  SelectSeq(table, LAMBDA row : row.did_verified_id = didVerifiedId)

\* isNftSettled: SELECT id ... WHERE did_verified_id = $1 AND status = 'success'
isNftSettled(table, didVerifiedId) ==
  \E i \in 1..Len(table) :
     /\ table[i].did_verified_id = didVerifiedId
     /\ table[i].status = "success"

\* fault variant: ORDER BY created_at ASC
getSettlementByNftId_Oldest(table, didVerifiedId) ==
  LET rows == SelectSeq(table, LAMBDA row : row.did_verified_id = didVerifiedId) IN
    IF rows = << >> THEN << >> ELSE << rows[1] >>

\* fault variant: the query matches no row
getSettlementByNftId_Null(table, didVerifiedId) == << >>

\* getSettlementByNftId: ... ORDER BY created_at DESC LIMIT 1; << >> is null
getSettlementByNftId(table, didVerifiedId) ==
  LET rows == RowsOf(table, didVerifiedId) IN
    IF rows = << >> THEN << >> ELSE << rows[Len(rows)] >>

(***************************************************************************)
(* Ledger: the payment contract behind signAndExecuteTransaction.  Its     *)
(* code is outside the repository; the README documents its abort codes.   *)
(***************************************************************************)
\* README "Error Codes (On-chain)": EUnauthorized, EInsufficientFunds,
\* EAlreadySettled, EInvalidProtocol
EUnauthorized == 1
EInsufficientFunds == 2
EAlreadySettled == 3
EInvalidProtocol == 4
AbortCodes ==
  {EUnauthorized, EInsufficientFunds, EAlreadySettled, EInvalidProtocol}

\* effects.status.error of a transaction aborted with the code
AbortError(code) ==
  CASE code = EUnauthorized      -> "MoveAbort(payment, 1) in command 0"
    [] code = EInsufficientFunds -> "MoveAbort(payment, 2) in command 0"
    [] code = EAlreadySettled    -> "MoveAbort(payment, 3) in command 0"
    [] code = EInvalidProtocol   -> "MoveAbort(payment, 4) in command 0"

\* the token is marked settled on-chain
SettledOnChain(txs, nftId) ==
  \E i \in 1..Len(txs) : txs[i].nft_id = nftId /\ txs[i].status = "success"

\* fault variant: the request's protocolUid is passed on
ProtocolUidArg_FromBody(b) == b.protocolUid

\* tx.pure.u64(CONTRACT_CONFIG.protocol.uid)
ProtocolUidArg(b) == config.CONTRACT_CONFIG.protocol.uid

\* fault variant: the name is passed on as it came
NftNameArg_NoDefault(b) == b.didNftName

\* tx.pure.string(didNftName || 'Unknown NFT')
NftNameArg(b) == IF Falsy(b.didNftName) THEN "Unknown NFT" ELSE b.didNftName

\* the effects a fresh execution of the entry point can have: an already
\* settled token aborts with EAlreadySettled, otherwise the call succeeds or
\* aborts on one of the other checks; abort code 0 marks success
FreshOutcomes(txs, nftId) ==
  IF SettledOnChain(txs, nftId)
    THEN {EAlreadySettled}
    ELSE {0} \cup (AbortCodes \ {EAlreadySettled})

\* the value of a hexadecimal digit of either case
HexDigit(c) ==
  CASE c = "0" -> 0 [] c = "1" -> 1 [] c = "2" -> 2 [] c = "3" -> 3
    [] c = "4" -> 4 [] c = "5" -> 5 [] c = "6" -> 6 [] c = "7" -> 7
    [] c = "8" -> 8 [] c = "9" -> 9
    [] c \in {"a", "A"} -> 10 [] c \in {"b", "B"} -> 11 [] c \in {"c", "C"} -> 12
    [] c \in {"d", "D"} -> 13 [] c \in {"e", "E"} -> 14 [] c \in {"f", "F"} -> 15

\* tx.pure.address(didVerifiedId): the 32 bytes the string denotes, as 64
\* half-bytes (the prefix dropped, the case of the digits gone)
AddressOf ==
  [id \in {b.didVerifiedId : b \in ValidBodies} |->
     [i \in 1..SuiIdHexLen |-> HexDigit(StrOf(id)[i + 2])]]

AddressArg(id) == AddressOf[id]

\* tx.sharedObjectRef({objectId, initialSharedVersion, mutable})
SharedObjectRef(objectId, mutable) == [objectId |-> objectId, mutable |-> mutable]

\* lines 151-181: tx.moveCall({target, arguments})
MoveCallOf(b) ==
  [target    |-> <<config.CONTRACT_CONFIG.packageId, "payment",
                   "settle_nft_payment_with_vault">>,
   arguments |-> << SharedObjectRef(config.CONTRACT_CONFIG.paymentRegistry, TRUE),
                    config.CONTRACT_CONFIG.paymentCap,
                    SharedObjectRef(config.CONTRACT_CONFIG.protocol.vault, TRUE),
                    ProtocolUidArg(b),
                    AddressArg(b.didVerifiedId),
                    NftNameArg(b),
                    SharedObjectRef(config.CONTRACT_CONFIG.clock, FALSE) >>]

ExecutedTx(b, base, code) ==
  [call     |-> MoveCallOf(b),
   protocol_uid |-> ProtocolUidArg(b),
   nft_id   |-> b.didVerifiedId,
   nft_name |-> NftNameArg(b),
   base     |-> base,
   status   |-> IF code = 0 THEN "success" ELSE "failure",
   error    |-> IF code = 0 THEN "" ELSE AbortError(code)]

\* positions of executed transactions with the same bytes: same arguments,
\* built on the same ledger version (same gas object version)
SameTransaction(txs, b, base) ==
  { i \in 1..Len(txs) :
      /\ txs[i].protocol_uid = ProtocolUidArg(b)
      /\ txs[i].nft_id = b.didVerifiedId
      /\ txs[i].nft_name = NftNameArg(b)
      /\ txs[i].base = base }

\* the SuiTransactionBlockResponse for the transaction at a position
ResultOf(txs, i) ==
  [digest |-> i, status |-> txs[i].status, error |-> txs[i].error]

(***************************************************************************)
(* settleNftPayment: controllers/settlement.controller.ts:41-258.          *)
(***************************************************************************)
\* lines 45-95: the error of the first failing check, "" when all pass
ValidationError(b) ==
  CASE Falsy(b.enclaveTxDigest) -> "enclaveTxDigest is required"
    [] ~Falsy(b.enclaveTxDigest) /\ Falsy(b.didVerifiedId) -> "didVerifiedId is required"
    [] ~Falsy(b.enclaveTxDigest) /\ ~Falsy(b.didVerifiedId) /\ Falsy(b.userAddress) ->
         "userAddress is required"
    [] OTHER ->
         IF ~isValidSuiId(b.didVerifiedId)
           THEN "Invalid didVerifiedId format. Expected 0x + 64 hex characters"
         ELSE IF ~isValidSuiId(b.userAddress)
           THEN "Invalid userAddress format. Expected 0x + 64 hex characters"
         ELSE IF ~isValidTxDigest(b.enclaveTxDigest)
           THEN "Invalid enclaveTxDigest format. Expected base58 transaction digest"
         ELSE ""

\* lines 47-94: res.status(400).json({success: false, error})
RejectResponse(err) == Respond(400, FALSE, <<err>>, << >>, 0)

\* fault variant: the transaction is submitted without the duplicate check
FirstAwait_Ledger == "signAndExecuteTransaction"

\* line 98: the first await of a request that passed validation
FirstAwait == "isNftSettled"

\* fault variant: the handler waits while any submission is in progress
AfterDuplicateCheck_Exclusive(alreadySettled) ==
  IF alreadySettled \/ \E r \in Reqs : pc[r] = "signAndExecuteTransaction"
    THEN "getSettlementByNftId"
    ELSE "signAndExecuteTransaction"

\* fault variant: the 409 branch is missing
AfterDuplicateCheck_NoConflict(alreadySettled) == "signAndExecuteTransaction"

\* lines 99-107 / 185: what the handler awaits after the duplicate check
AfterDuplicateCheck(alreadySettled) ==
  IF alreadySettled THEN "getSettlementByNftId" ELSE "signAndExecuteTransaction"

\* fault variant: the return after the 409 is missing
AfterConflict_FallThrough == "signAndExecuteTransaction"

\* line 106: return
AfterConflict == "done"

\* lines 101-105: 409 with the existing record
ConflictResponse(existingSettlement) ==
  Respond(409, FALSE, <<"DID NFT has already been settled">>, existingSettlement, 0)

\* fault variant: every result is taken for a success
LedgerFailed_Never(r) == FALSE

\* lines 197-198: status !== 'success'
LedgerFailed(r) == r.status # "success"

\* lines 199-205: 500 with the ledger's error text and digest
FailureResponse(r) ==
  Respond(500, FALSE,
          <<"Transaction failed: ", IF r.error = "" THEN "Unknown error" ELSE r.error>>,
          << >>, r.digest)

\* fault variant: the status of the result is not looked at
AfterLedgerResult_NoStatusCheck(r) == "storeSettlement"

\* lines 198-207, 230: what the handler does with the ledger's result
AfterLedgerResult(r) ==
  IF LedgerFailed(r) THEN "done" ELSE "storeSettlement"

\* fault variant: a thrown error makes the handler submit again
AfterThrow_Retry == "signAndExecuteTransaction"

\* lines 251-257: the catch block answers 500 and the handler ends
AfterThrow == "done"

\* fault variant: the 500 of the catch block carries no error text
CatchResponse_NoError(message) == Respond(500, FALSE, << >>, << >>, 0)

\* lines 253-256: 500 with error.message
CatchResponse(message) == Respond(500, FALSE, <<message>>, << >>, 0)

\* fault variant: signing uses the keypair up
SignerAfterSigning_Consumed(keypair) == ""

\* lines 185-192: signer: adminKeypair; the keypair after the client signed
\* the transaction with it
SignerAfterSigning(keypair) == keypair

\* fault variant: the record is written with status 'pending'
SettlementRecordOf_Pending(b, r) ==
  [enclave_tx_digest |-> b.enclaveTxDigest,
   did_verified_id   |-> b.didVerifiedId,
   did_nft_name      |-> b.didNftName,
   protocol_uid      |-> config.CONTRACT_CONFIG.protocol.uid,
   protocol_name     |-> ProtocolName,
   protocol_address  |-> config.CONTRACT_CONFIG.protocol.address,
   user_address      |-> b.userAddress,
   payment_tx_digest |-> r.digest,
   settlement_amount |-> config.CONTRACT_CONFIG.constants.settlementFee,
   status            |-> "pending"]

\* lines 210-228: the record handed to storeSettlement
SettlementRecordOf(b, r) ==
  [enclave_tx_digest |-> b.enclaveTxDigest,
   did_verified_id   |-> b.didVerifiedId,
   did_nft_name      |-> b.didNftName,
   protocol_uid      |-> config.CONTRACT_CONFIG.protocol.uid,
   protocol_name     |-> ProtocolName,
   protocol_address  |-> config.CONTRACT_CONFIG.protocol.address,
   user_address      |-> b.userAddress,
   payment_tx_digest |-> r.digest,
   settlement_amount |-> config.CONTRACT_CONFIG.constants.settlementFee,
   status            |-> "success"]

\* lines 235-250: 200 with the settlement data
SuccessResponse(b, r) ==
  Respond(200, TRUE, << >>,
          << [enclaveTxDigest  |-> b.enclaveTxDigest,
              didVerifiedId    |-> b.didVerifiedId,
              didNftName       |-> b.didNftName,
              protocolUid      |-> config.CONTRACT_CONFIG.protocol.uid,
              protocolName     |-> ProtocolName,
              protocolAddress  |-> config.CONTRACT_CONFIG.protocol.address,
              userAddress      |-> b.userAddress,
              paymentTxDigest  |-> r.digest,
              settlementAmount |-> config.CONTRACT_CONFIG.constants.settlementFee] >>,
          0)

(***************************************************************************)
(* getSettlementStatus: controllers/settlement.controller.ts:260-295.      *)
(***************************************************************************)
\* the path parameters of the status queries of the model
StatusIds == {"", "ID_A"}

\* the query and its response; pending: suspended at getSettlementByNftId
StatusResponse(nftId, pending, code, ok, err, settled, data) ==
  [nftId |-> nftId, pending |-> pending, status |-> code, success |-> ok,
   error |-> err, settled |-> settled, data |-> data]

NoStatusResponse == StatusResponse("", FALSE, 0, FALSE, << >>, FALSE, << >>)

\* lines 273-288: 200 with the row, or settled: false
StatusResponseOf(table, nftId) ==
  LET settlement == getSettlementByNftId(table, nftId) IN
    StatusResponse(nftId, FALSE, 200, TRUE, << >>, settlement # << >>, settlement)

(***************************************************************************)
(* The exported operations of database.service.ts and their use of the     *)
(* pool.                                                                   *)
(***************************************************************************)
DbOps ==
  {"initDatabase", "storeSettlement", "getSettlementByDigest", "isNftSettled",
   "getSettlementByNftId", "getSettlementsByUser", "testConnection"}

\* stage: "connect" (awaiting pool.connect), "query" (awaiting client.query),
\* "returned" or "threw" (the operation has ended)
DbOpAt(op, stage) == [op |-> op, stage |-> stage]

NoDbOp == DbOpAt("", "returned")

\* whether client.release() runs when client.query rejects: the operations
\* with try/finally release, testConnection skips to its catch block
ReleasesOnQueryError(op) == op # "testConnection"

\* whether the rejection reaches the caller: testConnection returns false
ThrowsToCaller(op) == op # "testConnection"

(***************************************************************************)
(* The application around the handlers: routes/settlement.routes.ts and    *)
(* app.ts.                                                                 *)
(***************************************************************************)
\* a request: method, path pattern it is an instance of, path parameter,
\* the limit and page of its query string (0: absent), and whether its
\* body is JSON that express.json() cannot parse
HttpRequestOf(method, path, param, limit, page, malformed) ==
  [method |-> method, path |-> path, param |-> param, limit |-> limit, page |-> page,
   malformed |-> malformed]

HttpRequests ==
  { HttpRequestOf("GET", "/api/settlement/health", "", 0, 0, FALSE),
    HttpRequestOf("GET", "/api/settlement/user/:userAddress", "USER_1", 0, 0, FALSE),
    HttpRequestOf("GET", "/api/settlement/all", "", 1, 1, FALSE),
    HttpRequestOf("GET", "/api/settlement/all", "", 1, 2, FALSE),
    HttpRequestOf("GET", "/api/settlement/all", "", 0, 0, FALSE),
    HttpRequestOf("GET", "/api/settlement/:id", "1", 0, 0, FALSE),
    HttpRequestOf("GET", "/api/settlement/settle", "", 0, 0, FALSE),
    HttpRequestOf("POST", "/api/settlement/settle", "", 0, 0, TRUE),
    HttpRequestOf("GET", "/", "", 0, 0, FALSE) }

\* the response to a request; hasSuccess: the JSON has a success field
HttpResponseOf(req, code, hasSuccess, ok, err, data) ==
  [req |-> req, status |-> code, hasSuccess |-> hasSuccess, success |-> ok,
   error |-> err, data |-> data, count |-> Len(data), total |-> Len(data)]

NoHttpResponse ==
  HttpResponseOf(HttpRequestOf("", "", "", 0, 0, FALSE), 0, FALSE, FALSE, << >>, << >>)

\* the handler express dispatches the request to: the three routes of the
\* router mounted at /api/settlement, the root endpoint, the error handler
\* for an unparsable body, else the 404 handler
RouteOf(req) ==
  IF req.malformed /\ req.method = "POST" THEN "errorHandler"
  ELSE IF req.method = "POST" /\ req.path = "/api/settlement/settle"
    THEN "settleNftPayment"
  ELSE IF req.method = "GET" /\ req.path = "/api/settlement/status/:nftId"
    THEN "getSettlementStatus"
  ELSE IF req.method = "GET" /\ req.path = "/api/settlement/health" THEN "healthCheck"
  ELSE IF req.method = "GET" /\ req.path = "/" THEN "root"
  ELSE "notFound"

\* the responses of healthCheck, the root endpoint, the 404 handler and the
\* error handler
HandlerResponse(req) ==
  CASE RouteOf(req) = "healthCheck" ->
         HttpResponseOf(req, 200, TRUE, TRUE, << >>,
                        << [adminAddress |-> config.adminAddress,
                            packageId    |-> config.CONTRACT_CONFIG.packageId,
                            protocolUid  |-> config.CONTRACT_CONFIG.protocol.uid,
                            protocolName |-> ProtocolName] >>)
    [] RouteOf(req) = "root" -> HttpResponseOf(req, 200, FALSE, FALSE, << >>, << >>)
    [] RouteOf(req) = "errorHandler" ->
         HttpResponseOf(req, 500, TRUE, FALSE, <<"Internal server error">>, << >>)
    [] OTHER -> HttpResponseOf(req, 404, TRUE, FALSE, <<"Endpoint not found">>, << >>)

Call(r, name) == [calls EXCEPT ![r] = Append(@, name)]

InFlight(r) == pc[r] \notin {"idle", "done"}

\* the ways the ledger can run the request's transaction: the cached effects
\* of an executed transaction with the same bytes, or a fresh execution
LedgerEffects(txs, b, base) ==
  { <<txs, ResultOf(txs, i)>> : i \in SameTransaction(txs, b, base) }
  \cup { <<Append(txs, ExecutedTx(b, base, code)),
           ResultOf(Append(txs, ExecutedTx(b, base, code)), Len(txs) + 1)>> :
           code \in FreshOutcomes(txs, b.didVerifiedId) }

(***************************************************************************)
(* startServer: server.ts:23-48.                                           *)
(***************************************************************************)
\* the process: the await startServer is at ("listening" after app.listen,
\* "exited" after process.exit), what start-up has achieved, the exit code
ProcAt(stage, dbConnected, dbInitialised, exitCode) ==
  [stage |-> stage, dbConnected |-> dbConnected, dbInitialised |-> dbInitialised,
   exitCode |-> exitCode]

\* the process while it serves requests
Listening == ProcAt("listening", TRUE, TRUE, << >>)

\* fault variant: the result of testConnection is not looked at
AfterTestConnection_Ignored(dbConnected) == "initDatabase"

\* lines 28-34: if (!dbConnected) throw ...; await initDatabase()
AfterTestConnection(dbConnected) == IF dbConnected THEN "initDatabase" ELSE "exited"

InitServer ==
  /\ proc = Listening
  /\ config = SuiConfig
  /\ pc = [r \in Reqs |-> "idle"]
  /\ body = [r \in Reqs |-> NoBody]
  /\ result = [r \in Reqs |-> NoResult]
  /\ txBase = [r \in Reqs |-> 0]
  /\ executed = [r \in Reqs |-> 0]
  /\ res = [r \in Reqs |-> NoResponse]
  /\ calls = [r \in Reqs |-> << >>]
  /\ doneBefore = [r \in Reqs |-> {}]
  /\ nft_settlements = << >>
  /\ nextId = 1
  /\ chainTxs = << >>
  /\ statusRes = NoStatusResponse
  /\ httpRes = NoHttpResponse
  /\ dbOp = NoDbOp
  /\ checkedOut = 0

Init == InitServer /\ checked = NoCheck

\* POST /settle arrives: lines 43-98, up to the first await; requests are
\* numbered in their order of arrival
Receive(r, b) ==
  /\ proc.stage = "listening"
  /\ pc[r] = "idle"
  /\ \A q \in Reqs : q < r => pc[q] # "idle"
  /\ body' = [body EXCEPT ![r] = b]
  /\ doneBefore' = [doneBefore EXCEPT ![r] = {q \in Reqs : pc[q] = "done"}]
  /\ IF ValidationError(b) # ""
       THEN /\ res' = [res EXCEPT ![r] = RejectResponse(ValidationError(b))]
            /\ pc' = [pc EXCEPT ![r] = "done"]
            /\ calls' = calls
       ELSE /\ res' = res
            /\ pc' = [pc EXCEPT ![r] = FirstAwait]
            /\ calls' = Call(r, FirstAwait)
  /\ UNCHANGED <<result, txBase, executed, nft_settlements, nextId, chainTxs, statusRes, otherVars>>

\* await isNftSettled(...) returns: lines 98-107, then 109-192 up to the
\* await of signAndExecuteTransaction
IsNftSettledReturns(r) ==
  /\ pc[r] = "isNftSettled"
  /\ LET alreadySettled == isNftSettled(nft_settlements, body[r].didVerifiedId)
         next == AfterDuplicateCheck(alreadySettled)
     IN
       /\ pc' = [pc EXCEPT ![r] = next]
       /\ calls' = [calls EXCEPT ![r] =
                      @ \o <<IF alreadySettled THEN "isNftSettled.true"
                                               ELSE "isNftSettled.false", next>>]
       /\ txBase' = [txBase EXCEPT ![r] =
                       IF next = "signAndExecuteTransaction" THEN Len(chainTxs) ELSE @]
  /\ UNCHANGED <<doneBefore, body, result, executed, res, nft_settlements, nextId, chainTxs, statusRes, otherVars>>

\* await getSettlementByNftId(...) returns: lines 100-106
GetSettlementReturns(r) ==
  /\ pc[r] = "getSettlementByNftId"
  /\ res' = [res EXCEPT ![r] =
               ConflictResponse(getSettlementByNftId(nft_settlements, body[r].didVerifiedId))]
  /\ pc' = [pc EXCEPT ![r] = AfterConflict]
  /\ calls' = Call(r, "getSettlementByNftId.ret")
  /\ UNCHANGED <<doneBefore, body, result, txBase, executed, nft_settlements, nextId, chainTxs, statusRes, otherVars>>

\* a storage call rejects (connection or query error): catch, lines 251-257
StorageThrows(r) ==
  /\ pc[r] \in {"isNftSettled", "getSettlementByNftId", "storeSettlement"}
  /\ calls' = [calls EXCEPT ![r] =
                 @ \o IF AfterThrow = "done" THEN <<pc[r] \o ".throw">>
                      ELSE <<pc[r] \o ".throw", AfterThrow>>]
  /\ pc' = [pc EXCEPT ![r] = AfterThrow]
  /\ res' = [res EXCEPT ![r] =
               IF AfterThrow = "done" THEN CatchResponse("storage error") ELSE @]
  /\ UNCHANGED <<doneBefore, body, result, txBase, executed, nft_settlements, nextId, chainTxs, statusRes, otherVars>>

\* await signAndExecuteTransaction(...) returns a response: lines 185-230
LedgerReturns(r) ==
  /\ pc[r] = "signAndExecuteTransaction"
  /\ config' = [config EXCEPT !.adminKeypair = SignerAfterSigning(@)]
  /\ \E e \in LedgerEffects(chainTxs, body[r], txBase[r]) :
       /\ chainTxs' = e[1]
       /\ executed' = [executed EXCEPT ![r] = e[2].digest]
       /\ result' = [result EXCEPT ![r] = e[2]]
       /\ pc' = [pc EXCEPT ![r] = AfterLedgerResult(e[2])]
       /\ IF AfterLedgerResult(e[2]) = "done"
            THEN /\ res' = [res EXCEPT ![r] = FailureResponse(e[2])]
                 /\ calls' = Call(r, "signAndExecuteTransaction.ret")
            ELSE /\ res' = res
                 /\ calls' = [calls EXCEPT ![r] =
                                @ \o <<"signAndExecuteTransaction.ret", AfterLedgerResult(e[2])>>]
  /\ UNCHANGED <<doneBefore, body, txBase, nft_settlements, nextId, statusRes,
                 httpRes, dbOp, checkedOut, checked, proc>>

\* signAndExecuteTransaction rejects (network, timeout), whether or not the
\* transaction was executed: catch, lines 251-257
LedgerThrows(r) ==
  /\ pc[r] = "signAndExecuteTransaction"
  /\ config' = [config EXCEPT !.adminKeypair = SignerAfterSigning(@)]
  /\ \E e \in LedgerEffects(chainTxs, body[r], txBase[r]) \cup {<<chainTxs, NoResult>>} :
       /\ chainTxs' = e[1]
       /\ executed' = [executed EXCEPT ![r] = e[2].digest]
  /\ calls' = [calls EXCEPT ![r] =
                 @ \o IF AfterThrow = "done" THEN <<"signAndExecuteTransaction.throw">>
                      ELSE <<"signAndExecuteTransaction.throw", AfterThrow>>]
  /\ pc' = [pc EXCEPT ![r] = AfterThrow]
  /\ res' = [res EXCEPT ![r] =
               IF AfterThrow = "done" THEN CatchResponse("transport error") ELSE @]
  /\ UNCHANGED <<doneBefore, body, result, txBase, nft_settlements, nextId, statusRes,
                 httpRes, dbOp, checkedOut, checked, proc>>

\* await storeSettlement(...) settles: lines 230-250, or the error of the
\* INSERT reaches the catch block, lines 251-257
StoreReturns(r) ==
  /\ pc[r] = "storeSettlement"
  /\ LET settlement == SettlementRecordOf(body[r], result[r]) IN
       /\ nft_settlements' = storeSettlement(nft_settlements, settlement, nextId)
       /\ nextId' = nextId + 1
       /\ IF InsertError(nft_settlements, settlement) # ""
            THEN /\ calls' = [calls EXCEPT ![r] =
                                @ \o <<IF ValueTooLong(settlement)
                                         THEN "storeSettlement.throw"
                                         ELSE "storeSettlement.duplicate">>
                                  \o IF AfterThrow = "done" THEN << >> ELSE <<AfterThrow>>]
                 /\ pc' = [pc EXCEPT ![r] = AfterThrow]
                 /\ res' = [res EXCEPT ![r] =
                              IF AfterThrow = "done"
                                THEN CatchResponse(InsertError(nft_settlements, settlement))
                                ELSE @]
            ELSE /\ calls' = Call(r, "storeSettlement.ret")
                 /\ pc' = [pc EXCEPT ![r] = "done"]
                 /\ res' = [res EXCEPT ![r] = SuccessResponse(body[r], result[r])]
  /\ UNCHANGED <<doneBefore, body, result, txBase, executed, chainTxs, statusRes, otherVars>>

\* initDatabase as run by startServer at every process start:
\* DROP TABLE IF EXISTS nft_settlements, then CREATE TABLE
initDatabase ==
  /\ \A r \in Reqs : ~InFlight(r)
  /\ ~statusRes.pending
  /\ nft_settlements # << >>
  /\ nft_settlements' = << >>
  /\ nextId' = 1
  /\ UNCHANGED <<doneBefore, pc, body, result, txBase, executed, res, calls, chainTxs, statusRes, otherVars>>

\* GET /status/:nftId arrives: lines 262-271, up to the await
GetSettlementStatus(nftId) ==
  /\ proc.stage = "listening"
  /\ ~statusRes.pending
  /\ statusRes' = IF Falsy(nftId)
                    THEN StatusResponse(nftId, FALSE, 400, FALSE, <<"nftId is required">>,
                                        FALSE, << >>)
                    ELSE StatusResponse(nftId, TRUE, 0, FALSE, << >>, FALSE, << >>)
  /\ UNCHANGED <<pc, body, result, txBase, executed, res, calls, doneBefore,
                 nft_settlements, nextId, chainTxs, otherVars>>

\* await getSettlementByNftId(nftId) returns: lines 271-288
GetSettlementStatusReturns ==
  /\ statusRes.pending
  /\ statusRes' = StatusResponseOf(nft_settlements, statusRes.nftId)
  /\ UNCHANGED <<pc, body, result, txBase, executed, res, calls, doneBefore,
                 nft_settlements, nextId, chainTxs, otherVars>>

\* getSettlementByNftId rejects: catch, lines 289-295
GetSettlementStatusThrows ==
  /\ statusRes.pending
  /\ statusRes' = StatusResponse(statusRes.nftId, FALSE, 500, FALSE, <<"storage error">>,
                                 FALSE, << >>)
  /\ UNCHANGED <<pc, body, result, txBase, executed, res, calls, doneBefore,
                 nft_settlements, nextId, chainTxs, otherVars>>

\* a request that is dispatched to neither settleNftPayment nor
\* getSettlementStatus
HttpRequest(req) ==
  /\ proc.stage = "listening"
  /\ RouteOf(req) \notin {"settleNftPayment", "getSettlementStatus"}
  /\ httpRes' = HandlerResponse(req)
  /\ UNCHANGED <<pc, body, result, txBase, executed, res, calls, doneBefore,
                 nft_settlements, nextId, chainTxs, statusRes, dbOp, checkedOut, checked, proc, config>>

Next ==
  \/ \E r \in Reqs, b \in Bodies : Receive(r, b)
  \/ \E r \in Reqs : IsNftSettledReturns(r)
  \/ \E r \in Reqs : GetSettlementReturns(r)
  \/ \E r \in Reqs : StorageThrows(r)
  \/ \E r \in Reqs : LedgerReturns(r)
  \/ \E r \in Reqs : LedgerThrows(r)
  \/ \E r \in Reqs : StoreReturns(r)
  \/ initDatabase

Spec == Init /\ [][Next]_vars

(***************************************************************************)
(* Settle requests with well-formed bodies together with status queries.   *)
(***************************************************************************)
WellFormedBodies ==
  { Body("DIG_43", "ID_A", "", "USER_1"),
    BodyOfProtocol("DIG_44", "ID_B", "NAME_1", "USER_1", "other", 9999) }

NextStatus ==
  \/ \E r \in Reqs, b \in WellFormedBodies : Receive(r, b)
  \/ \E r \in Reqs : IsNftSettledReturns(r)
  \/ \E r \in Reqs : GetSettlementReturns(r)
  \/ \E r \in Reqs : StorageThrows(r)
  \/ \E r \in Reqs : LedgerReturns(r)
  \/ \E r \in Reqs : LedgerThrows(r)
  \/ \E r \in Reqs : StoreReturns(r)
  \/ initDatabase
  \/ \E nftId \in StatusIds : GetSettlementStatus(nftId)
  \/ GetSettlementStatusReturns
  \/ GetSettlementStatusThrows

SpecStatus == Init /\ [][NextStatus]_vars

(***************************************************************************)
(* The storage layer on its own: any caller of the exported storeSettlement *)
(* with records of the SettlementRecord shape.                             *)
(***************************************************************************)
StorageRecords ==
  [enclave_tx_digest : {"DIG_43"},
   did_verified_id   : {"ID_A", "ID_B"},
   did_nft_name      : {"", "NAME_1"},
   protocol_uid      : {ProtocolUid},
   protocol_name     : {ProtocolName},
   protocol_address  : {ProtocolAddress},
   user_address      : {"USER_1"},
   payment_tx_digest : 1..MaxRows,
   settlement_amount : {SettlementFee},
   status            : {"", "success"}]

\* storeSettlement(settlement) called directly
StoreSettlementCall(settlement) ==
  /\ nextId <= MaxRows
  /\ nft_settlements' = storeSettlement(nft_settlements, settlement, nextId)
  /\ nextId' = nextId + 1
  /\ UNCHANGED <<pc, body, result, txBase, executed, res, calls, doneBefore, chainTxs, statusRes, otherVars>>

NextStorage == \E settlement \in StorageRecords : StoreSettlementCall(settlement)

SpecStorage == Init /\ [][NextStorage]_vars

(***************************************************************************)
(* Status queries over a table filled by direct calls of storeSettlement.  *)
(***************************************************************************)
NextQueries ==
  \/ \E settlement \in StorageRecords : StoreSettlementCall(settlement)
  \/ \E nftId \in StatusIds : GetSettlementStatus(nftId)
  \/ GetSettlementStatusReturns
  \/ GetSettlementStatusThrows

SpecQueries == Init /\ [][NextQueries]_vars

(***************************************************************************)
(* The whole request surface: settle requests for one token sent one after *)
(* the other, status queries and every other request the application       *)
(* answers.                                                                *)
(***************************************************************************)
SurfaceBodies ==
  { Body("DIG_43", "ID_A", "", "USER_1"), Body("DIG_42", "ID_A", "", "USER_1") }

NextSurface ==
  \/ \E r \in Reqs, b \in SurfaceBodies : (\A q \in Reqs : ~InFlight(q)) /\ Receive(r, b)
  \/ \E r \in Reqs : IsNftSettledReturns(r)
  \/ \E r \in Reqs : GetSettlementReturns(r)
  \/ \E r \in Reqs : StorageThrows(r)
  \/ \E r \in Reqs : LedgerReturns(r)
  \/ \E r \in Reqs : LedgerThrows(r)
  \/ \E r \in Reqs : StoreReturns(r)
  \/ \E nftId \in StatusIds : GetSettlementStatus(nftId)
  \/ GetSettlementStatusReturns
  \/ GetSettlementStatusThrows
  \/ \E req \in HttpRequests : HttpRequest(req)

SpecSurface == Init /\ [][NextSurface]_vars

(***************************************************************************)
(* The connection pool: every exported operation of database.service.ts    *)
(* as connect, query, release.                                             *)
(***************************************************************************)
\* an operation is called
DbCall(op) ==
  /\ dbOp.stage \in {"returned", "threw"}
  /\ dbOp' = DbOpAt(op, "connect")
  /\ UNCHANGED <<pc, body, result, txBase, executed, res, calls, doneBefore,
                 nft_settlements, nextId, chainTxs, statusRes, httpRes, checkedOut, checked, proc, config>>

\* pool.connect() hands out a client
DbConnected ==
  /\ dbOp.stage = "connect"
  /\ checkedOut < PoolMax
  /\ checkedOut' = checkedOut + 1
  /\ dbOp' = DbOpAt(dbOp.op, "query")
  /\ UNCHANGED <<pc, body, result, txBase, executed, res, calls, doneBefore,
                 nft_settlements, nextId, chainTxs, statusRes, httpRes, checked, proc, config>>

\* pool.connect() rejects
DbConnectFails ==
  /\ dbOp.stage = "connect"
  /\ dbOp' = DbOpAt(dbOp.op, IF ThrowsToCaller(dbOp.op) THEN "threw" ELSE "returned")
  /\ UNCHANGED <<pc, body, result, txBase, executed, res, calls, doneBefore,
                 nft_settlements, nextId, chainTxs, statusRes, httpRes, checkedOut, checked, proc, config>>

\* client.query(...) resolves; client.release() follows
DbQueryReturns ==
  /\ dbOp.stage = "query"
  /\ checkedOut' = checkedOut - 1
  /\ dbOp' = DbOpAt(dbOp.op, "returned")
  /\ UNCHANGED <<pc, body, result, txBase, executed, res, calls, doneBefore,
                 nft_settlements, nextId, chainTxs, statusRes, httpRes, checked, proc, config>>

\* client.query(...) rejects
DbQueryFails ==
  /\ dbOp.stage = "query"
  /\ checkedOut' = IF ReleasesOnQueryError(dbOp.op) THEN checkedOut - 1 ELSE checkedOut
  /\ dbOp' = DbOpAt(dbOp.op, IF ThrowsToCaller(dbOp.op) THEN "threw" ELSE "returned")
  /\ UNCHANGED <<pc, body, result, txBase, executed, res, calls, doneBefore,
                 nft_settlements, nextId, chainTxs, statusRes, httpRes, checked, proc, config>>

NextPool ==
  \/ \E op \in DbOps : DbCall(op)
  \/ DbConnected
  \/ DbConnectFails
  \/ DbQueryReturns
  \/ DbQueryFails

SpecPool == Init /\ [][NextPool]_vars

(***************************************************************************)
(* The validators on their own, applied to strings.                        *)
(***************************************************************************)
InitValidators ==
  /\ InitServer
  /\ checked \in { Check("isValidSuiId", s, FALSE, FALSE) : s \in IdInputs }
               \cup { Check("isValidTxDigest", s, FALSE, FALSE) : s \in DigestInputs }

serverVars ==
  <<pc, body, result, txBase, executed, res, calls, doneBefore, nft_settlements, nextId,
    chainTxs, statusRes, httpRes, dbOp, checkedOut, proc, config>>

\* isValidSuiId(id) called with a string
IsValidSuiIdCall ==
  /\ checked.fn = "isValidSuiId"
  /\ ~checked.applied
  /\ checked' = Check(checked.fn, checked.input, TRUE, SuiIdRegexTest(checked.input))
  /\ UNCHANGED serverVars

\* isValidTxDigest(digest) called with a string
IsValidTxDigestCall ==
  /\ checked.fn = "isValidTxDigest"
  /\ ~checked.applied
  /\ checked' = Check(checked.fn, checked.input, TRUE, TxDigestRegexTest(checked.input))
  /\ UNCHANGED serverVars

NextValidators == IsValidSuiIdCall \/ IsValidTxDigestCall

SpecValidators == InitValidators /\ [][NextValidators]_vars

(***************************************************************************)
(* Start-up: startServer from its first await, against a database that     *)
(* answers or not and a table an earlier run may have left, then the       *)
(* requests the application serves.                                        *)
(***************************************************************************)
\* tables an earlier run of the server can have left behind
EarlierTables ==
  { << >>,
    << InsertedRow([enclave_tx_digest |-> "DIG_43", did_verified_id |-> "ID_A",
                    did_nft_name |-> "", protocol_uid |-> ProtocolUid,
                    protocol_name |-> ProtocolName, protocol_address |-> ProtocolAddress,
                    user_address |-> "USER_1", payment_tx_digest |-> 1,
                    settlement_amount |-> SettlementFee, status |-> "success"], 1) >> }

InitStartup ==
  /\ proc = ProcAt("testConnection", FALSE, FALSE, << >>)
  /\ config = SuiConfig
  /\ pc = [r \in Reqs |-> "idle"]
  /\ body = [r \in Reqs |-> NoBody]
  /\ result = [r \in Reqs |-> NoResult]
  /\ txBase = [r \in Reqs |-> 0]
  /\ executed = [r \in Reqs |-> 0]
  /\ res = [r \in Reqs |-> NoResponse]
  /\ calls = [r \in Reqs |-> << >>]
  /\ doneBefore = [r \in Reqs |-> {}]
  /\ nft_settlements \in EarlierTables
  /\ nextId = Len(nft_settlements) + 1
  /\ chainTxs = << >>
  /\ statusRes = NoStatusResponse
  /\ httpRes = NoHttpResponse
  /\ dbOp = NoDbOp
  /\ checkedOut = 0
  /\ checked = NoCheck

\* await testConnection() returns: lines 28-34, up to await initDatabase()
\* or, by way of the throw, to process.exit(1) in the catch block
TestConnectionReturns(dbConnected) ==
  /\ proc.stage = "testConnection"
  /\ proc' = ProcAt(AfterTestConnection(dbConnected), dbConnected, FALSE,
                    IF AfterTestConnection(dbConnected) = "exited" THEN <<1>> ELSE << >>)
  /\ UNCHANGED <<pc, body, result, txBase, executed, res, calls, doneBefore,
                 nft_settlements, nextId, chainTxs, statusRes, httpRes, dbOp, checkedOut,
                 checked, config>>

\* await initDatabase() returns (DROP TABLE, CREATE TABLE): lines 34-43,
\* app.listen
InitDatabaseReturns ==
  /\ proc.stage = "initDatabase"
  /\ nft_settlements' = << >>
  /\ nextId' = 1
  /\ proc' = ProcAt("listening", proc.dbConnected, TRUE, << >>)
  /\ UNCHANGED <<pc, body, result, txBase, executed, res, calls, doneBefore,
                 chainTxs, statusRes, httpRes, dbOp, checkedOut, checked, config>>

\* initDatabase rejects, before or after the DROP TABLE: catch, lines 44-47,
\* process.exit(1)
InitDatabaseThrows ==
  /\ proc.stage = "initDatabase"
  /\ \E dropped \in BOOLEAN :
       /\ nft_settlements' = IF dropped THEN << >> ELSE nft_settlements
       /\ nextId' = IF dropped THEN 1 ELSE nextId
  /\ proc' = ProcAt("exited", proc.dbConnected, FALSE, <<1>>)
  /\ UNCHANGED <<pc, body, result, txBase, executed, res, calls, doneBefore,
                 chainTxs, statusRes, httpRes, dbOp, checkedOut, checked, config>>

NextStartup ==
  \/ \E dbConnected \in BOOLEAN : TestConnectionReturns(dbConnected)
  \/ InitDatabaseReturns
  \/ InitDatabaseThrows
  \/ \E r \in Reqs, b \in SurfaceBodies : (\A q \in Reqs : ~InFlight(q)) /\ Receive(r, b)
  \/ \E r \in Reqs : IsNftSettledReturns(r)
  \/ \E r \in Reqs : GetSettlementReturns(r)
  \/ \E r \in Reqs : StorageThrows(r)
  \/ \E r \in Reqs : LedgerReturns(r)
  \/ \E r \in Reqs : LedgerThrows(r)
  \/ \E r \in Reqs : StoreReturns(r)
  \/ \E nftId \in StatusIds : GetSettlementStatus(nftId)
  \/ GetSettlementStatusReturns
  \/ GetSettlementStatusThrows
  \/ \E req \in HttpRequests : HttpRequest(req)

SpecStartup == InitStartup /\ [][NextStartup]_vars

(***************************************************************************)
(* Validation on its own: one request, lines 43-98, over bodies whose      *)
(* fields are absent, well-formed, malformed in each way, or an array.     *)
(***************************************************************************)
ValidationBodies ==
  { Body(d, i, n, u) :
      d \in {"", "DIG_43", "DIG_42", "DIG_45", "DIG_ZERO"},
      i \in {"", "ID_A", "ID_SHORT", "ID_NOHEX", "ID_NOPFX"},
      n \in {"", "NAME_1"},
      u \in {"", "USER_1", "USER_BAD", "USER_ARR"} }

NextValidation == \E b \in ValidationBodies : Receive(1, b)

SpecValidation == Init /\ [][NextValidation]_vars

(***************************************************************************)
(* Properties.                                                             *)
(***************************************************************************)
Has(seq, x) == \E i \in 1..Len(seq) : seq[i] = x

Count(seq, x) == Len(SelectSeq(seq, LAMBDA y : y = x))

Answered(r) == pc[r] = "done"

\* C1: storage holds at most one settlement record per did_verified_id,
\* whatever the callers of the storage layer do
C1_OneRecordPerSubject ==
  \A i, j \in 1..Len(nft_settlements) :
     nft_settlements[i].did_verified_id = nft_settlements[j].did_verified_id => i = j

SameSubject(p, q) ==
  /\ p # q
  /\ pc[p] # "idle"
  /\ pc[q] # "idle"
  /\ body[p].didVerifiedId = body[q].didVerifiedId

StorageThrew(r) ==
  \/ Has(calls[r], "isNftSettled.throw")
  \/ Has(calls[r], "getSettlementByNftId.throw")
  \/ Has(calls[r], "storeSettlement.throw")

\* the field shapes of a well-formed request, read off the characters
ObjectIdShape(s) ==
  /\ Len(s) = 66
  /\ SubSeq(s, 1, 2) = <<"0", "x">>
  /\ \A i \in 3..66 : s[i] \in HexChars

DigestShape(s) ==
  /\ Len(s) \in {43, 44}
  /\ \A i \in 1..Len(s) : s[i] \in Base58Chars

Malformed(b) ==
  \/ b.enclaveTxDigest = ""
  \/ b.didVerifiedId = ""
  \/ b.userAddress = ""
  \/ IsArray(b.enclaveTxDigest)
  \/ IsArray(b.didVerifiedId)
  \/ IsArray(b.userAddress)
  \/ ~ObjectIdShape(StrOf(b.didVerifiedId))
  \/ ~ObjectIdShape(StrOf(b.userAddress))
  \/ ~DigestShape(StrOf(b.enclaveTxDigest))

\* C2: of the valid requests with one didVerifiedId at most one is answered
\* 200, and a request that arrives after the 200 (and meets no storage
\* error) is answered 409 with the record of that first settlement
C2_Idempotency ==
  \A p, q \in Reqs :
     (SameSubject(p, q) /\ res[p].status = 200 /\ Answered(q) /\ ~Malformed(body[q]))
       => /\ res[q].status # 200
          /\ (p \in doneBefore[q] /\ ~StorageThrew(q))
               => /\ res[q].status = 409
                  /\ res[q].data # << >>
                  /\ res[q].data[1].payment_tx_digest = res[p].data[1].paymentTxDigest

\* C3: when two requests for one didVerifiedId both pass the duplicate check
\* and both transactions succeed, one insert succeeds and the other request
\* is answered 409 by way of the unique violation of its insert
C3_DuplicateRace ==
  \A p, q \in Reqs :
     ( /\ SameSubject(p, q)
       /\ Answered(p) /\ Answered(q)
       /\ p \notin doneBefore[q] /\ q \notin doneBefore[p]
       /\ Has(calls[p], "isNftSettled.false") /\ Has(calls[q], "isNftSettled.false")
       /\ result[p].status = "success" /\ result[q].status = "success"
       /\ ~StorageThrew(p) /\ ~StorageThrew(q) )
       => \E w, l \in {p, q} :
             /\ w # l
             /\ res[w].status = 200
             /\ Has(calls[l], "storeSettlement.duplicate")
             /\ res[l].status = 409

\* C4: a request with a missing or malformed field (a field that is not the
\* string of the required shape) is answered 400 and makes no storage call
\* and no ledger submission
C4_ValidationTotality ==
  \A r \in Reqs :
     (pc[r] # "idle" /\ Malformed(body[r]))
       => /\ Answered(r)
          /\ res[r].status = 400
          /\ calls[r] = << >>

\* C5: within a request the duplicate check has returned before the ledger
\* submission is issued, the submission has returned before the insert is
\* issued, and a 200 answer follows the whole sequence
C5_StepOrder ==
  \A r \in Reqs :
     /\ calls[r] # << >> => calls[r][1] = "isNftSettled"
     /\ \A i \in 1..Len(calls[r]) :
          /\ calls[r][i] = "signAndExecuteTransaction"
               => \E j \in 1..(i - 1) :
                     calls[r][j] \in {"isNftSettled.false", "isNftSettled.true"}
          /\ calls[r][i] = "storeSettlement"
               => \E j \in 1..(i - 1) : calls[r][j] = "signAndExecuteTransaction.ret"
     /\ res[r].status = 200
          => calls[r] = <<"isNftSettled", "isNftSettled.false",
                          "signAndExecuteTransaction", "signAndExecuteTransaction.ret",
                          "storeSettlement", "storeSettlement.ret">>

C5_Witness ==
  \E r \in Reqs : res[r].status = 200 /\ Has(calls[r], "storeSettlement.ret")

\* C6: a request submits to the ledger at most once, and an answered request
\* has submitted exactly once iff it passed validation and its duplicate
\* check found no record
C6_LedgerOnce ==
  \A r \in Reqs :
     /\ Count(calls[r], "signAndExecuteTransaction") <= 1
     /\ Answered(r)
          => (Count(calls[r], "signAndExecuteTransaction") = 1
                <=> (res[r].status # 400 /\ Has(calls[r], "isNftSettled.false")))

C6_Witness ==
  \E p, q \in Reqs :
     /\ Answered(p) /\ Answered(q)
     /\ res[p].status = 200
     /\ Count(calls[p], "signAndExecuteTransaction") = 1
     /\ Has(calls[q], "isNftSettled.true")
     /\ Count(calls[q], "signAndExecuteTransaction") = 0

\* the message classes C7 names for the abort codes
ClaimedMessageClass(code) ==
  CASE code = EAlreadySettled    -> "already settled"
    [] code = EInsufficientFunds -> "insufficient funds"
    [] code \in {EUnauthorized, EInvalidProtocol} -> "authorization or protocol mismatch"
    [] OTHER -> "generic on-chain failure"

\* the class of an error text of a response
MessageClass(error) ==
  IF error = << >> THEN "none"
  ELSE IF Len(error) = 2 /\ error[1] = "Transaction failed: "
            /\ \E code \in AbortCodes : error[2] = AbortError(code)
    THEN "ledger error text"
  ELSE error[1]

\* C7: the error message answered for an aborted transaction is the message
\* the abort code maps to
C7_AbortCodeMapping ==
  \A r \in Reqs : \A code \in AbortCodes :
     (result[r].status = "failure" /\ result[r].error = AbortError(code))
       => MessageClass(res[r].error) = ClaimedMessageClass(code)

\* C8: a ledger result whose status is not success is answered 500 with the
\* transaction's digest, and the request inserts no row
C8_FailedLedgerResult ==
  \A r \in Reqs :
     (result[r].digest # 0 /\ result[r].status # "success")
       => /\ Answered(r)
          /\ res[r].status = 500
          /\ ~res[r].success
          /\ res[r].digest = result[r].digest
          /\ ~Has(calls[r], "storeSettlement")
          /\ \A i \in 1..Len(nft_settlements) :
                nft_settlements[i].payment_tx_digest # result[r].digest

C8_Witness ==
  \E r \in Reqs :
     /\ result[r].status = "failure"
     /\ result[r].digest > 0
     /\ res[r].status = 500
     /\ res[r].digest = result[r].digest

\* C9: a transport error of the ledger submission is answered with a plain
\* 500, the submission is not repeated and the request inserts no row
C9_TransportError ==
  \A r \in Reqs :
     Has(calls[r], "signAndExecuteTransaction.throw")
       => /\ Answered(r)
          /\ res[r].status = 500
          /\ ~res[r].success
          /\ res[r].digest = 0
          /\ res[r].data = << >>
          /\ Count(calls[r], "signAndExecuteTransaction") = 1
          /\ ~Has(calls[r], "storeSettlement")

C9_Witness ==
  \E r \in Reqs :
     /\ Has(calls[r], "signAndExecuteTransaction.throw")
     /\ res[r].status = 500
     /\ SettledOnChain(chainTxs, body[r].didVerifiedId)

\* C10: an insert that fails on a unique constraint after the transaction
\* succeeded is answered 409 with the existing record
C10_LateDuplicateKey ==
  \A r \in Reqs :
     Has(calls[r], "storeSettlement.duplicate")
       => /\ res[r].status = 409
          /\ res[r].data # << >>

\* C11: a committed row stays in the table with all its fields unchanged,
\* whatever operation runs, process start-up included
C11_NeverUpdatedOrDeleted ==
  [][\A i \in 1..Len(nft_settlements) :
        /\ Len(nft_settlements') >= i
        /\ nft_settlements'[i] = nft_settlements[i]]_vars

\* C12: storeSettlement of a record whose did_verified_id is already in the
\* table fails and leaves the table unchanged
C12_InsertExistingSubjectFails ==
  [][\A settlement \in StorageRecords :
        ( /\ StoreSettlementCall(settlement)
          /\ \E i \in 1..Len(nft_settlements) :
                nft_settlements[i].did_verified_id = settlement.did_verified_id )
          => nft_settlements' = nft_settlements]_vars

\* C13: no two rows share a payment_tx_digest, and the insert of a record
\* whose payment_tx_digest is already in the table fails, leaves the table
\* unchanged and is not answered 200
C13_TxDigestUnique ==
  /\ [](\A i, j \in 1..Len(nft_settlements) :
          nft_settlements[i].payment_tx_digest = nft_settlements[j].payment_tx_digest
            => i = j)
  /\ [][\A r \in Reqs :
          ( /\ pc[r] = "storeSettlement"
            /\ pc'[r] # "storeSettlement"
            /\ \E i \in 1..Len(nft_settlements) :
                  nft_settlements[i].payment_tx_digest = result[r].digest )
            => /\ nft_settlements' = nft_settlements
               /\ res'[r].status # 200]_vars

C13_Witness ==
  \E r \in Reqs :
     /\ Has(calls[r], "storeSettlement.duplicate")
     /\ \E i \in 1..Len(nft_settlements) :
           nft_settlements[i].payment_tx_digest = result[r].digest

\* the transaction of p succeeded on-chain but p failed before its insert
\* committed (the submission or a storage call threw)
SettledUnrecorded(p) ==
  /\ Answered(p)
  /\ res[p].status = 500
  /\ executed[p] # 0
  /\ chainTxs[executed[p]].status = "success"

\* q is a retry into the gap p left: q arrived after p had failed, and no
\* earlier request for the token was still running or had been answered 200
RetryAfter(p, q) ==
  /\ SameSubject(p, q)
  /\ SettledUnrecorded(p)
  /\ p \in doneBefore[q]
  /\ ~Malformed(body[q])
  /\ \A o \in Reqs :
        (o < q /\ body[o].didVerifiedId = body[q].didVerifiedId)
          => (o \in doneBefore[q] /\ res[o].status # 200)

\* C14: once a token is settled on-chain without a row, the table never gets
\* a row for it, and every retry passes the duplicate check, has its
\* transaction aborted with EAlreadySettled and is answered 500, never 200
\* or 409
C14_ReconciliationGap ==
  \A p, q \in Reqs :
     RetryAfter(p, q)
       => /\ RowsOf(nft_settlements, body[q].didVerifiedId) = << >>
          /\ ~Has(calls[q], "isNftSettled.true")
          /\ result[q].digest # 0 => result[q].error = AbortError(EAlreadySettled)
          /\ Answered(q)
               => /\ res[q].status = 500
                  /\ ~StorageThrew(q) => Has(calls[q], "signAndExecuteTransaction")

C14_Witness ==
  \E p, q \in Reqs :
     /\ RetryAfter(p, q)
     /\ Answered(q)
     /\ result[q].error = AbortError(EAlreadySettled)
     /\ res[q].status = 500

\* C15: the duplicate check takes no lock: while one request for a token is
\* submitting, every other request for the token whose duplicate check found
\* no row submits as well
C15_PreCheckNotExclusive ==
  \A p, q \in Reqs :
     ( /\ SameSubject(p, q)
       /\ pc[p] = "signAndExecuteTransaction"
       /\ Has(calls[q], "isNftSettled.false") )
       => Has(calls[q], "signAndExecuteTransaction")

\* two requests for one token, both past a duplicate check that found no
\* row, both with their transaction submitted at the same time
C15_Witness ==
  \E p, q \in Reqs :
     /\ SameSubject(p, q)
     /\ ~Malformed(body[p]) /\ ~Malformed(body[q])
     /\ Has(calls[p], "isNftSettled.false") /\ Has(calls[q], "isNftSettled.false")
     /\ pc[p] = "signAndExecuteTransaction"
     /\ pc[q] = "signAndExecuteTransaction"

\* C16: a request whose duplicate check finds a row submits nothing and
\* writes nothing, and (no storage error) is answered 409 with the existing
\* row of its token as data
C16_ConflictReadOnly ==
  /\ [](\A r \in Reqs :
          Has(calls[r], "isNftSettled.true")
            => /\ ~Has(calls[r], "signAndExecuteTransaction")
               /\ ~Has(calls[r], "storeSettlement")
               /\ executed[r] = 0
               /\ (Answered(r) /\ ~StorageThrew(r))
                    => /\ res[r].status = 409
                       /\ res[r].data # << >>
                       /\ res[r].data[1].did_verified_id = body[r].didVerifiedId
                       /\ res[r].data[1].status = "success")
  /\ [][\A r \in Reqs :
          (Has(calls[r], "isNftSettled.true") /\ pc'[r] # pc[r])
            => UNCHANGED <<nft_settlements, nextId, chainTxs>>]_vars

C16_Witness ==
  \E r \in Reqs :
     /\ Has(calls[r], "isNftSettled.true")
     /\ res[r].status = 409
     /\ res[r].data # << >>

\* C17: a request answered 200 reports the digest the ledger returned and
\* the configured fee, and a status query for its token answered after it
\* reports settled: true with a row carrying that digest
C17_DoneThenStatus ==
  /\ [](\A r \in Reqs :
          res[r].status = 200
            => /\ res[r].data[1].paymentTxDigest = result[r].digest
               /\ result[r].digest = executed[r]
               /\ res[r].data[1].settlementAmount = SettlementFee)
  /\ [][\A r \in Reqs :
          ( /\ res[r].status = 200
            /\ statusRes.pending
            /\ statusRes.nftId = body[r].didVerifiedId
            /\ ~statusRes'.pending
            /\ statusRes'.status # 500 )
            => /\ statusRes'.status = 200
               /\ statusRes'.settled
               /\ statusRes'.data # << >>
               /\ statusRes'.data[1].payment_tx_digest = result[r].digest]_vars

\* C18: every row has status 'success' and carries the digest of a
\* transaction that succeeded, and a row is only ever added by a request
\* whose transaction succeeded and which is answered 200
C18_OnlySuccessRows ==
  /\ [](\A i \in 1..Len(nft_settlements) :
          /\ nft_settlements[i].status = "success"
          /\ nft_settlements[i].payment_tx_digest \in 1..Len(chainTxs)
          /\ chainTxs[nft_settlements[i].payment_tx_digest].status = "success")
  /\ [][Len(nft_settlements') > Len(nft_settlements)
          => \E r \in Reqs :
                /\ pc[r] = "storeSettlement"
                /\ result[r].status = "success"
                /\ res'[r].status = 200]_vars

C18_Witness ==
  \E p, q \in Reqs :
     /\ res[p].status = 200
     /\ Len(nft_settlements) = 1
     /\ res[q].status = 500
     /\ result[q].status = "failure"

\* C19: whatever the request bodies hold, every row and every 200 answer
\* carries the configured protocol uid, name, address and fee, and every
\* submitted transaction the configured protocol uid
C19_ConfigOnlyMetadata ==
  /\ \A i \in 1..Len(nft_settlements) :
        /\ nft_settlements[i].protocol_uid = ProtocolUid
        /\ nft_settlements[i].protocol_name = ProtocolName
        /\ nft_settlements[i].protocol_address = ProtocolAddress
        /\ nft_settlements[i].settlement_amount = SettlementFee
  /\ \A i \in 1..Len(chainTxs) : chainTxs[i].protocol_uid = ProtocolUid
  /\ \A r \in Reqs :
        res[r].status = 200
          => /\ res[r].data[1].protocolUid = ProtocolUid
             /\ res[r].data[1].protocolName = ProtocolName
             /\ res[r].data[1].protocolAddress = ProtocolAddress
             /\ res[r].data[1].settlementAmount = SettlementFee

\* two rows from requests that differ in every body field, the protocol
\* fields included
C19_Witness ==
  \E p, q \in Reqs :
     /\ res[p].status = 200 /\ res[q].status = 200
     /\ body[p].protocolUid = ProtocolUid
     /\ body[q].protocolUid # ProtocolUid
     /\ body[q].protocolName # ProtocolName
     /\ Len(nft_settlements) = 2

\* C20: a request that passes the format checks with a protocolName or
\* protocolUid other than the configured ones is answered 403 and makes no
\* storage call and no ledger submission
C20_ProtocolMismatchRejected ==
  \A r \in Reqs :
     ( /\ pc[r] # "idle"
       /\ ~Malformed(body[r])
       /\ (body[r].protocolName # ProtocolName \/ body[r].protocolUid # ProtocolUid) )
       => /\ Answered(r)
          /\ res[r].status = 403
          /\ calls[r] = << >>

\* C25: isValidSuiId applied to a string returns true exactly when the
\* string is "0x" followed by 64 hexadecimal characters of either case
C25_SuiIdValidator ==
  (checked.fn = "isValidSuiId" /\ checked.applied)
    => (checked.out <=> ObjectIdShape(checked.input))

C25_Witness ==
  /\ checked.fn = "isValidSuiId"
  /\ checked.applied
  /\ checked.out
  /\ \E i, j \in 1..Len(checked.input) :
        checked.input[i] = "F" /\ checked.input[j] = "e"

\* C26: isValidTxDigest applied to a string returns true exactly when the
\* string has 43 or 44 characters, all of the base-58 alphabet
C26_TxDigestValidator ==
  (checked.fn = "isValidTxDigest" /\ checked.applied)
    => (checked.out <=> DigestShape(checked.input))

C26_Witness ==
  /\ checked.fn = "isValidTxDigest"
  /\ checked.applied
  /\ checked.out
  /\ Len(checked.input) = 44

\* the requests below /api/settlement
InSettlementSurface(req) == req.path \notin {"", "/"}

\* the envelope of one response: failures carry success: false and an
\* error text, success: true goes with 200 only
Envelope(status, hasSuccess, success, error) ==
  /\ hasSuccess
  /\ status \in {200, 400, 404, 409, 500}
  /\ status # 200 => (~success /\ error # << >>)
  /\ success => status = 200

\* C21: every response of settle, status and the other endpoints below
\* /api/settlement has a success field; 400, 404, 409 and 500 carry
\* success: false with an error text, and success: true occurs only with 200
C21_ResponseEnvelope ==
  /\ \A r \in Reqs :
        res[r].status # 0 => Envelope(res[r].status, TRUE, res[r].success, res[r].error)
  /\ statusRes.status # 0
        => Envelope(statusRes.status, TRUE, statusRes.success, statusRes.error)
  /\ (httpRes.status # 0 /\ InSettlementSurface(httpRes.req))
        => Envelope(httpRes.status, httpRes.hasSuccess, httpRes.success, httpRes.error)

C21_Witness ==
  /\ \E p, q \in Reqs : res[p].status = 200 /\ res[q].status = 409
  /\ statusRes.status = 200
  /\ statusRes.settled
  /\ httpRes.status = 404

\* C22: a status query that meets no storage error answers 200, with
\* settled: true and the latest row of the token exactly when the table has
\* a row for it, and no step of a status query changes table or ledger
C22_StatusEndpoint ==
  /\ [][(statusRes.pending /\ ~statusRes'.pending /\ statusRes'.status # 500)
          => LET id == statusRes.nftId
                 n == Len(nft_settlements)
                 has == \E i \in 1..n : nft_settlements[i].did_verified_id = id
             IN /\ statusRes'.status = 200
                /\ statusRes'.success
                /\ statusRes'.settled <=> has
                /\ ~has => statusRes'.data = << >>
                /\ has => \E i \in 1..n :
                            /\ nft_settlements[i].did_verified_id = id
                            /\ \A j \in (i + 1)..n :
                                  nft_settlements[j].did_verified_id # id
                            /\ statusRes'.data = << nft_settlements[i] >>]_vars
  /\ [][statusRes' # statusRes
          => UNCHANGED <<nft_settlements, nextId, chainTxs, executed>>]_vars

C22_Witness ==
  /\ statusRes.settled
  /\ \E i, j \in 1..Len(nft_settlements) :
        /\ i < j
        /\ nft_settlements[i].did_verified_id = statusRes.nftId
        /\ nft_settlements[j].did_verified_id = statusRes.nftId
        /\ statusRes.data = << nft_settlements[j] >>

Reverse(seq) == [i \in 1..Len(seq) |-> seq[Len(seq) + 1 - i]]

\* C23: GET /api/settlement/user/:userAddress answers 200 with the rows of
\* that user_address, newest first, and their number as count
C23_UserEndpoint ==
  [][(httpRes' # httpRes /\ httpRes'.req.path = "/api/settlement/user/:userAddress")
       => /\ httpRes'.status = 200
          /\ httpRes'.success
          /\ httpRes'.data =
               Reverse(SelectSeq(nft_settlements,
                                 LAMBDA row : row.user_address = httpRes'.req.param))
          /\ httpRes'.count = Len(httpRes'.data)]_vars

\* the rows of page `page` of size `limit` of seq; limit 0: all of seq
PageOf(seq, limit, page) ==
  IF limit = 0 THEN seq
  ELSE SubSeq(seq, (page - 1) * limit + 1,
              IF page * limit < Len(seq) THEN page * limit ELSE Len(seq))

\* C24: GET /api/settlement/all answers 200 with total the number of rows
\* and, as data, its page of the rows newest first, so that the pages in
\* turn make up all rows, each once
C24_PaginationRoundTrip ==
  [][(httpRes' # httpRes /\ httpRes'.req.path = "/api/settlement/all")
       => /\ httpRes'.status = 200
          /\ httpRes'.total = Len(nft_settlements)
          /\ httpRes'.data =
               PageOf(Reverse(nft_settlements), httpRes'.req.limit, httpRes'.req.page)]_vars

\* C27: when no storage operation is in progress no pool client is checked
\* out, whichever operations ran and however they ended
C27_PoolClientsReleased ==
  /\ checkedOut <= 1
  /\ dbOp.stage \in {"returned", "threw"} => checkedOut = 0

\* C28: a request sends one response, at the step its handler ends, with
\* status 200, 400, 409 or 500; a handler that has not ended is suspended
\* at an await that can settle
C28_ExactlyOneResponse ==
  /\ [](\A r \in Reqs :
          /\ Answered(r) => res[r].status \in {200, 400, 409, 500}
          /\ ~Answered(r) => res[r] = NoResponse
          /\ InFlight(r)
               => /\ pc[r] \in {"isNftSettled", "getSettlementByNftId",
                                 "signAndExecuteTransaction", "storeSettlement"}
                  /\ ENABLED (\/ IsNftSettledReturns(r)
                              \/ GetSettlementReturns(r)
                              \/ LedgerReturns(r)
                              \/ StoreReturns(r)))
  /\ [][\A r \in Reqs :
          /\ res'[r] # res[r] => (res[r] = NoResponse /\ pc'[r] = "done")
          /\ pc[r] = "done" => pc'[r] = "done"]_vars

C28_Witness ==
  \E p, q \in Reqs :
     /\ res[p].status = 200
     /\ res[q].status = 409
     /\ pc[p] = "done" /\ pc[q] = "done"

\* C29: every row carries the digest of a transaction that a request of
\* this system submitted for the row's token and that executed with status
\* success
C29_RowsMatchLedger ==
  \A i \in 1..Len(nft_settlements) :
     LET row == nft_settlements[i]
         d == row.payment_tx_digest
     IN /\ d \in 1..Len(chainTxs)
        /\ chainTxs[d].status = "success"
        /\ chainTxs[d].nft_id = row.did_verified_id
        /\ \E r \in Reqs :
              executed[r] = d /\ body[r].didVerifiedId = row.did_verified_id

C29_Witness ==
  \E p, q \in Reqs :
     /\ Len(nft_settlements) = 1
     /\ executed[p] = nft_settlements[1].payment_tx_digest
     /\ result[q].status = "failure"
     /\ RowsOf(nft_settlements, body[q].didVerifiedId) = << >>

\* C30: at the step that sends 200 the table holds the request's row, and
\* a request whose insert failed is not answered 200
C30_ResponseAfterCommit ==
  /\ [][\A r \in Reqs :
          (res[r].status # 200 /\ res'[r].status = 200)
            => \E i \in 1..Len(nft_settlements') :
                  /\ nft_settlements'[i].did_verified_id = body[r].didVerifiedId
                  /\ nft_settlements'[i].payment_tx_digest
                       = res'[r].data[1].paymentTxDigest]_vars
  /\ [](\A r \in Reqs :
          ( \/ Has(calls[r], "storeSettlement.throw")
            \/ Has(calls[r], "storeSettlement.duplicate") )
            => res[r].status # 200)

C30_Witness ==
  \E r \in Reqs :
     /\ res[r].status = 200
     /\ \E i \in 1..Len(nft_settlements) :
           /\ nft_settlements[i].did_verified_id = body[r].didVerifiedId
           /\ nft_settlements[i].payment_tx_digest = result[r].digest


\* C31: in every state, for every didVerifiedId a request can carry,
\* isNftSettled is true exactly when getSettlementByNftId returns a row
C31_ExistsAgreesWithFind ==
  \A b \in Bodies :
     isNftSettled(nft_settlements, b.didVerifiedId)
       <=> getSettlementByNftId(nft_settlements, b.didVerifiedId) # << >>

C31_Witness ==
  /\ isNftSettled(nft_settlements, "ID_A")
  /\ getSettlementByNftId(nft_settlements, "ID_A") # << >>
  /\ ~isNftSettled(nft_settlements, "ID_B")
  /\ \E r \in Reqs : body[r].didVerifiedId = "ID_B" /\ res[r].status = 500


\* a field is missing; a field is not the string of the required shape
Missing(x) == x = ""

MalformedId(x) == IsArray(x) \/ ~ObjectIdShape(StrOf(x))

MalformedDigest(x) == IsArray(x) \/ ~DigestShape(StrOf(x))

\* the error of the first failing check in the stated order: the three
\* presence checks, then the three shape checks
FirstFailingCheck(b) ==
  IF Missing(b.enclaveTxDigest) THEN "enclaveTxDigest is required"
  ELSE IF Missing(b.didVerifiedId) THEN "didVerifiedId is required"
  ELSE IF Missing(b.userAddress) THEN "userAddress is required"
  ELSE IF MalformedId(b.didVerifiedId)
    THEN "Invalid didVerifiedId format. Expected 0x + 64 hex characters"
  ELSE IF MalformedId(b.userAddress)
    THEN "Invalid userAddress format. Expected 0x + 64 hex characters"
  ELSE IF MalformedDigest(b.enclaveTxDigest)
    THEN "Invalid enclaveTxDigest format. Expected base58 transaction digest"
  ELSE ""

\* C32: a rejected request carries the error of the first failing check in
\* the order missing enclaveTxDigest, missing didVerifiedId, missing
\* userAddress, malformed didVerifiedId, malformed userAddress, malformed
\* enclaveTxDigest
C32_FirstFailingCheck ==
  \A r \in Reqs :
     res[r].status = 400 => res[r].error = << FirstFailingCheck(body[r]) >>


\* a request has been taken up by the application
Served ==
  \/ \E r \in Reqs : pc[r] # "idle"
  \/ statusRes # NoStatusResponse
  \/ httpRes # NoHttpResponse

\* C33: the process listens, and takes up requests, only after
\* testConnection has succeeded and initDatabase has completed; when either
\* fails it exits with code 1, having served no request, and does nothing
\* after that
C33_StartupOrder ==
  /\ [](proc.stage = "listening" => (proc.dbConnected /\ proc.dbInitialised))
  /\ [](proc.stage = "initDatabase" => proc.dbConnected)
  /\ [](Served => proc.stage = "listening")
  /\ [](proc.stage = "exited" => (proc.exitCode = <<1>> /\ ~Served))
  /\ [][proc.stage # "exited"]_vars
  /\ [][(proc.stage = "testConnection" /\ ~proc'.dbConnected)
          => proc'.stage = "exited"]_vars
  /\ [][(proc.stage = "initDatabase" /\ ~proc'.dbInitialised)
          => proc'.stage = "exited"]_vars

C33_Witness ==
  /\ proc.stage = "listening"
  /\ proc.dbConnected /\ proc.dbInitialised
  /\ \E r \in Reqs : res[r].status = 200
  /\ statusRes.status = 200


LowerHex == <<"0","1","2","3","4","5","6","7","8","9","a","b","c","d","e","f">>

UpperHex == <<"0","1","2","3","4","5","6","7","8","9","A","B","C","D","E","F">>

\* the half-bytes a well-formed id string spells after its prefix, digit by
\* digit in either case
SpelledBy(s) ==
  [i \in 1..(Len(s) - 2) |->
     CHOOSE n \in 0..15 : s[i + 2] \in {LowerHex[n + 1], UpperHex[n + 1]}]

\* the same for the ids of the requests that pass validation
IdSpelled == [id \in {b.didVerifiedId : b \in ValidBodies} |-> SpelledBy(StrOf(id))]

\* C34: the transaction a request has had executed is one call of
\* payment::settle_nft_payment_with_vault with the arguments registry,
\* payment cap, vault, protocol uid, the request's didVerifiedId as address,
\* the request's didNftName or 'Unknown NFT' when it is absent, clock
C34_MoveCallArguments ==
  \A r \in Reqs :
     executed[r] # 0 =>
       LET call == chainTxs[executed[r]].call IN
         /\ call.target = <<CONTRACT_CONFIG.packageId, "payment", "settle_nft_payment_with_vault">>
         /\ Len(call.arguments) = 7
         /\ call.arguments[1] = [objectId |-> CONTRACT_CONFIG.paymentRegistry, mutable |-> TRUE]
         /\ call.arguments[2] = CONTRACT_CONFIG.paymentCap
         /\ call.arguments[3] = [objectId |-> CONTRACT_CONFIG.protocol.vault, mutable |-> TRUE]
         /\ call.arguments[4] = CONTRACT_CONFIG.protocol.uid
         /\ call.arguments[5] = IdSpelled[body[r].didVerifiedId]
         /\ call.arguments[6] = IF body[r].didNftName = "" THEN "Unknown NFT"
                                                           ELSE body[r].didNftName
         /\ call.arguments[7] = [objectId |-> CONTRACT_CONFIG.clock, mutable |-> FALSE]

C34_Witness ==
  \E p, q \in Reqs :
     /\ executed[p] # 0 /\ executed[q] # 0
     /\ body[p].didNftName = ""
     /\ chainTxs[executed[p]].call.arguments[6] = "Unknown NFT"
     /\ body[q].didNftName = "NAME_1"
     /\ chainTxs[executed[q]].call.arguments[6] = "NAME_1"
     /\ chainTxs[executed[q]].call.arguments[5][1] = 11

====
